---- MODULE Spec2Model ----
(***************************************************************************)
(* codedoc-ai: the index builder (indexer/__init__.py), the query engine   *)
(* (search/__init__.py) and the identity functions (utils/ids.py and       *)
(* indexer.make_unique_id), as a state machine over the persistent vector  *)
(* store.                                                                  *)
(*                                                                         *)
(* Strings that the code builds with f-strings are sequences of tokens     *)
(* here: "a:b" is <<"a", ":", "b">>.  md5 and uuid5 are injective on the   *)
(* token sequences they hash (Md5Hex8, Uuid5).  An embedding is a vector   *)
(* of EmbDim numbers and the store's distance is the squared distance.     *)
(* The language extractors (parser/*.py) and the Router (router.py) are    *)
(* modelled as functions of one file, called in SpecFile.                  *)
(***************************************************************************)
EXTENDS Integers, Sequences, FiniteSets, TLC

VARIABLES
    colls,     \* the persistent store: name of each existing collection -> its set of entries
    b,         \* the locals of the build_index call in progress (b.pc = "idle": none)
    clock,     \* the last value read from time.time()*1000000
    nbuilds,   \* number of build_index calls started so far
    last,      \* what the last finished build_index call did
    started,   \* languages for which a build went past the no-files check
    sr,        \* what the last query call did ("idle": another step came after it)
    nfaults,   \* failures of the store, the embedder and the extractors so far
    calls,     \* the make_unique_id_uuid calls made so far (SpecIds)
    fx         \* the call of an extractor function or of the Router made (SpecFile)

vars == <<colls, b, clock, nbuilds, last, started, sr, nfaults, calls, fx>>

-----------------------------------------------------------------------------
(* Bounds *)

MaxBuilds == 2      \* build_index calls in one behaviour
MaxClock == 2       \* clock readings are 1..MaxClock
MaxFaults == 2      \* failures injected in one behaviour
MaxK == 2           \* top_k of a query is 1..MaxK
MaxCalls == 2       \* make_unique_id_uuid calls recorded in SpecIds
\* batch_size is 500 at indexer/__init__.py:178; scaled down so that one
\* build has more than one batch.
batch_size == 2
MaxNodes == 3       \* function nodes in a file given to parse_file
MaxParams == 3      \* parameters in a parameter list given to _extract_args
MaxSiblings == 3    \* nodes before a function given to _extract_doc
MaxPieces == 3      \* pieces of text in the content of a file given to the Router
\* the slice is [:2048] at router.py:33; scaled down to pieces of text, with
\* room for a piece beyond the slice.
HeadLen == 2
\* the vectors have 384 numbers (indexer/__init__.py:175); scaled down.
EmbDim == 2

-----------------------------------------------------------------------------
(* Sequences and texts *)

NoneVal == "<None>"

Range(s) == {s[i] : i \in DOMAIN s}

RECURSIVE Join(_, _)
\* sep.join(parts), as a token sequence
Join(parts, sep) ==
    IF Len(parts) = 0 THEN <<>>
    ELSE IF Len(parts) = 1 THEN <<parts[1]>>
    ELSE <<parts[1], sep>> \o Join(Tail(parts), sep)

RECURSIVE SumSeq(_)
SumSeq(s) == IF Len(s) = 0 THEN 0 ELSE s[1] + SumSeq(Tail(s))

-----------------------------------------------------------------------------
(* The file tree.  A file is its path below the root, its extension and    *)
(* the function definitions an extractor finds in it, in source order.     *)

Root == <<"/", "repo">>

FnInitA == [name |-> "__init__", line |-> 2, col |-> 5, args |-> <<"self">>,
            ret |-> NoneVal, doc |-> "init a"]
FnInitB == [name |-> "__init__", line |-> 2, col |-> 5, args |-> <<"self">>,
            ret |-> NoneVal, doc |-> NoneVal]
FnH1 == [name |-> "h", line |-> 1, col |-> 1, args |-> <<>>,
         ret |-> NoneVal, doc |-> "first"]
FnH2 == [name |-> "h", line |-> 1, col |-> 9, args |-> <<"x">>,
         ret |-> NoneVal, doc |-> "second"]
FnH3 == [name |-> "h", line |-> 1, col |-> 17, args |-> <<"x", "y">>,
         ret |-> NoneVal, doc |-> NoneVal]

FileA == [ord |-> 1, rel |-> <<"a", "pkg", "u.py">>, ext |-> "py", funcs |-> <<FnInitA>>]
FileB == [ord |-> 2, rel |-> <<"b", "pkg", "u.py">>, ext |-> "py", funcs |-> <<FnInitB>>]
FileE == [ord |-> 3, rel |-> <<"e.py">>, ext |-> "py", funcs |-> <<>>]
FileV == [ord |-> 4, rel |-> <<"venv", "x.py">>, ext |-> "py", funcs |-> <<FnH1>>]
FileM == [ord |-> 5, rel |-> <<"m.js">>, ext |-> "js", funcs |-> <<FnH1, FnH2, FnH3>>]

Files == {FileA, FileB, FileE, FileV, FileM}

\* the directories a build is run on: empty, only an excluded file, a file
\* without functions, two packages with a module of the same name, one file
\* with three definitions on one line
Dirs == {{}, {FileV}, {FileE}, {FileA, FileB}, {FileM}}

\* the languages build_index is called with
BuildLangs == {"py", "js"}

RECURSIVE SortFiles(_)
\* list(repo_root.glob(pattern)): the files in directory order
SortFiles(S) ==
    IF S = {} THEN <<>>
    ELSE LET m == CHOOSE x \in S : \A y \in S : x.ord <= y.ord
         IN  <<m>> \o SortFiles(S \ {m})

\* str(file): the path parts of a file found under the root
PathParts(f) == Root \o f.rel

-----------------------------------------------------------------------------
(* Identity functions *)

\* hashlib.md5(s).hexdigest()[:8]
Md5Hex8(s) == <<"md5">> \o s

\* uuid.uuid5(NAMESPACE_DNS, s), dashes replaced
Uuid5(s) == <<"uuid5">> \o s

\* function_name.replace('__', '_').replace(' ', '_')[:20]
CleanName(name) ==
    CASE name = "__init__" -> "_init_"
      [] name = "my func"  -> "my_func"
      [] OTHER             -> name

LastTwo(parts) == <<parts[Len(parts) - 1], parts[Len(parts)]>>

\* utils/ids.py with the clock mixed in
make_unique_id_uuid_clock(lang, function_name, file_path, start_line, start_col) ==
    <<lang, "_">> \o Uuid5(<<lang, ":", function_name, ":">> \o Join(file_path, "/")
                           \o <<":", start_line, ":", start_col, clock>>)

make_unique_id_uuid(lang, function_name, file_path, start_line, start_col) ==
    <<lang, "_">> \o Uuid5(<<lang, ":", function_name, ":">> \o Join(file_path, "/")
                           \o <<":", start_line, ":", start_col>>)

make_unique_id(lang, function_name, file_path, start_line, start_col) ==
    LET relative_path == IF Len(file_path) > 2
                         THEN Join(LastTwo(file_path), "/")
                         ELSE <<file_path[Len(file_path)]>>
        unique_string == <<lang, ":", function_name, ":">> \o relative_path
                         \o <<":", start_line, ":", start_col>>
    IN  <<lang, "_", CleanName(function_name), "_", Md5Hex8(unique_string)>>

\* f"{unique_id}_{int(time.time()*1000000)}"
Suffixed(unique_id, ts) == unique_id \o <<"_", ts>>

IsSuffixed(id) == Len(id) = 7

-----------------------------------------------------------------------------
(* Embedding *)

TokenWeight(tok) ==
    CASE tok = "__init__" -> 1
      [] tok = "h"        -> 4
      [] tok = "first"    -> 1
      [] tok = "second"   -> 3
      [] tok = "init a"   -> 2
      [] tok = "x"        -> 1
      [] tok = "y"        -> 2
      [] OTHER            -> 0

\* MODEL.encode(text, normalize_embeddings=True).tolist(): a vector of
\* EmbDim numbers computed from the text
embed_text(text) ==
    [d \in 1..EmbDim |->
        IF d = 1 THEN SumSeq([i \in DOMAIN text |-> TokenWeight(text[i])])
        ELSE Len(text)]

DocOrEmpty(d) == IF d = NoneVal THEN "" ELSE d

\* embedder line 11:
\* f"{func.name}({', '.join(func.args)}) -> {func.return_type}\n{func.docstring or ''}"
Payload(func) ==
    <<func.name, "(">> \o Join(func.args, ", ")
    \o <<") -> ", func.return_type, "\n", DocOrEmpty(func.docstring)>>

\* embedder lines 10-12
embed_function(func) == embed_text(Payload(func))

\* [0.0] * 384
ZeroVector == [d \in 1..EmbDim |-> 0]

\* squared distance of two vectors of the same length
Distance(u, v) == SumSeq([d \in DOMAIN u |-> (u[d] - v[d]) * (u[d] - v[d])])

-----------------------------------------------------------------------------
(* The vector store (chromadb.PersistentClient at CHROMA_PATH) *)

\* the language tags the alias tables normalize to
Tags == {"py", "js", "java", "rust", "go", "cpp"}

\* line 66 naming one collection for every language
CollName_shared(lang) == <<"functions_", "py">>

\* f"functions_{lang}"
CollName(lang) == <<"functions_", lang>>

CollNames == {CollName(t) : t \in Tags}

\* get_collection taking a collection without entries for a missing one
Exists_nonempty(store, name) == name \in DOMAIN store /\ store[name] # {}

\* client.get_collection(name) does not raise
Exists(store, name) == name \in DOMAIN store

IdsOf(entries) == {e.id : e \in entries}

\* collection.add(...) that does not raise: an id the collection already
\* holds keeps its stored entry
StoreAdd(entries, batch) ==
    entries \cup {e \in Range(batch) : e.id \notin IdsOf(entries)}

\* collection.add(...) raises on ids repeated within one call
HasDuplicateIds(batch) ==
    \E i, j \in DOMAIN batch : i # j /\ batch[i].id = batch[j].id

\* client.get_or_create_collection(name=coll_name)
GetOrCreate(store, name) ==
    IF Exists(store, name) THEN store ELSE store @@ (name :> {})

\* fails: collection.get() or collection.delete(ids) raised
clear_chroma_collection(store, name, fails) ==
    IF Exists(store, name) /\ ~fails
    THEN [store EXCEPT ![name] = {}]
    ELSE store

\* the result lists of collection.query(query_embeddings=[emb], n_results=k):
\* the k nearest entries, nearest first, ties in any order
QueryResults(entries, emb, k) ==
    LET n == IF Cardinality(entries) < k THEN Cardinality(entries) ELSE k
    IN  {r \in [1..n -> entries] :
            /\ \A i, j \in 1..n : i < j => r[i] # r[j]
            /\ \A i, j \in 1..n : i < j =>
                   Distance(r[i].emb, emb) <= Distance(r[j].emb, emb)
            /\ \A e \in entries \ Range(r) : \A i \in 1..n :
                   Distance(r[i].emb, emb) <= Distance(e.emb, emb)}

-----------------------------------------------------------------------------
(* build_index: the locals of a call *)

IdleB == [pc |-> "idle"]

NoReport == [status |-> "none"]

\* exclude_patterns
exclude_patterns == {".venv", "venv", "__pycache__", ".git", "node_modules", "dist", "build"}

\* line 84: any(exclude_part in file.parts for exclude_part in exclude_patterns)
HasExcludedPart(parts) == \E part \in exclude_patterns : part \in Range(parts)

\* lines 75-87: glob by extension, then drop the files with an excluded part
Candidates(dir, lang) ==
    LET files == {f \in dir : f.ext = lang}
    IN  SortFiles({f \in files : ~HasExcludedPart(PathParts(f))})

\* detect_and_parse(file): the FunctionSchema records of the file, their ids
\* assigned by the extractor
ParseFile(f, lang) ==
    [i \in DOMAIN f.funcs |->
        LET fn == f.funcs[i]
        IN  [id |-> make_unique_id_uuid(lang, fn.name, PathParts(f), fn.line, fn.col),
             name |-> fn.name,
             file_path |-> PathParts(f),
             args |-> fn.args,
             docstring |-> fn.doc,
             return_type |-> fn.ret,
             start_line |-> fn.line]]

RECURSIVE AssignIds(_, _, _, _)
\* lines 105-121 over the records funcs of one file; ts[i] is the clock
\* reading taken for record i when its id is already in seen_ids
AssignIds(funcs, ts, lang, st) ==
    IF Len(funcs) = 0 THEN st
    ELSE LET func == funcs[1]
             base == make_unique_id(lang, func.name, func.file_path, func.start_line, 0)
             dup  == base \in st.seen_ids
             unique_id == IF dup THEN Suffixed(base, ts[1]) ELSE base
         IN  AssignIds(Tail(funcs), Tail(ts), lang,
                 [functions |-> Append(st.functions, [func EXCEPT !.id = unique_id]),
                  seen_ids |-> st.seen_ids \cup {unique_id},
                  duplicate_count |-> st.duplicate_count + (IF dup THEN 1 ELSE 0)])

\* line 150: doc_text = f"{f.name} {f.docstring or ''}"
DocText(f) == <<f.name, " ", DocOrEmpty(f.docstring)>>

\* lines 156-164
Metadata(f) ==
    [name |-> f.name, docstring |-> DocOrEmpty(f.docstring),
     args |-> Join(f.args, ", "), start_line |-> f.start_line,
     file_path |-> f.file_path]

\* lines 172-175 putting the zero vector at the front of the list
OnEmbedError_front(embeds) == <<ZeroVector>> \o embeds

\* lines 172-175: the except clause around embed_function
OnEmbedError(embeds) == Append(embeds, ZeroVector)

RECURSIVE EmbedPhase(_, _, _, _)
\* lines 138-175: the loop over functions from position k on, appending to
\* the four lists; efail holds the positions whose embed_function raises
EmbedPhase(functions, efail, k, lists) ==
    IF k > Len(functions) THEN lists
    ELSE LET f == functions[k]
         IN  EmbedPhase(functions, efail, k + 1,
                 [ids |-> Append(lists.ids, f.id),
                  docs |-> Append(lists.docs, DocText(f)),
                  metadatas |-> Append(lists.metadatas, Metadata(f)),
                  embeds |-> IF k \in efail THEN OnEmbedError(lists.embeds)
                             ELSE Append(lists.embeds, embed_function(f))])

NoLists == [ids |-> <<>>, docs |-> <<>>, metadatas |-> <<>>, embeds |-> <<>>]

\* lines 183-186 and 189-194 giving every entry of the batch the document
\* of the batch's first position
Batch_shift(bb, lo, hi) ==
    [k \in 1..(hi - lo + 1) |->
        [id |-> bb.lists.ids[lo + k - 1],
         doc |-> bb.lists.docs[lo],
         meta |-> bb.lists.metadatas[lo + k - 1],
         emb |-> bb.lists.embeds[lo + k - 1],
         gen |-> bb.gen]]

\* lines 183-186 and 189-194: the entries of positions lo..hi, each made of
\* the same position of the four lists
Batch(bb, lo, hi) ==
    [k \in 1..(hi - lo + 1) |->
        [id |-> bb.lists.ids[lo + k - 1],
         doc |-> bb.lists.docs[lo + k - 1],
         meta |-> bb.lists.metadatas[lo + k - 1],
         emb |-> bb.lists.embeds[lo + k - 1],
         gen |-> bb.gen]]

Min(x, y) == IF x < y THEN x ELSE y

SubSeqOf(s, lo, hi) == [k \in 1..(hi - lo + 1) |-> s[lo + k - 1]]

RECURSIVE AddOneByOne_stop(_, _, _, _)
\* lines 201-211 leaving the loop at the first add that raises
AddOneByOne_stop(entries, batch, j, ifail) ==
    IF j > Len(batch) THEN [entries |-> entries, added |-> 0, tried |-> <<>>]
    ELSE IF j \in ifail
    THEN [entries |-> entries, added |-> 0, tried |-> <<[j |-> j, ok |-> FALSE]>>]
    ELSE LET rest == AddOneByOne_stop(StoreAdd(entries, <<batch[j]>>), batch, j + 1, ifail)
         IN  [entries |-> rest.entries, added |-> rest.added + 1,
              tried |-> <<[j |-> j, ok |-> TRUE]>> \o rest.tried]

RECURSIVE AddOneByOne(_, _, _, _)
\* lines 201-211: the records of a failed batch, one add each; ifail holds
\* the positions whose add raises.  Returns the entries, the number added
\* and the adds made, in order.
AddOneByOne(entries, batch, j, ifail) ==
    IF j > Len(batch) THEN [entries |-> entries, added |-> 0, tried |-> <<>>]
    ELSE LET ok == j \notin ifail
             e1 == IF ok THEN StoreAdd(entries, <<batch[j]>>) ELSE entries
             rest == AddOneByOne(e1, batch, j + 1, ifail)
         IN  [entries |-> rest.entries,
              added |-> rest.added + (IF ok THEN 1 ELSE 0),
              tried |-> <<[j |-> j, ok |-> ok]>> \o rest.tried]

\* the calls of collection.add made for one batch: the add of positions
\* lo..hi and, when it raised, the single adds that followed
Submissions(lo, hi, bfail, tried) ==
    <<[kind |-> "batch", lo |-> lo, hi |-> hi, ok |-> ~bfail]>>
    \o (IF bfail
        THEN [t \in DOMAIN tried |->
                [kind |-> "single", lo |-> lo + tried[t].j - 1,
                 hi |-> lo + tried[t].j - 1, ok |-> tried[t].ok]]
        ELSE <<>>)

\* lines 129 and 225: build_index ends with a bare return or by falling off
\* its end, so its caller receives None
ReturnValue(bb) == NoneVal

\* the kinds of caught failure for which an except clause prints a message:
\* lines 123-124, 172-173, 198-199 and 210-211 print; the except clause of
\* clear_chroma_collection that catches the store's error (lines 55-57) is
\* a bare pass
Printed(faults) == faults \ {"clear"}

\* what a build_index call with locals bb leaves behind when it ends
Report(bb, store, status) ==
    [status |-> status, lang |-> bb.lang, dir |-> bb.dir, gen |-> bb.gen,
     nfiles |-> bb.nfiles, failed |-> bb.failed,
     functions |-> bb.functions,
     duplicate_count |-> bb.duplicate_count, total_added |-> bb.total_added,
     faults |-> bb.faults, persisted |-> IdsOf(store[CollName(bb.lang)]),
     present |-> Cardinality({e \in store[CollName(bb.lang)] : e.gen = bb.gen}),
     printed |-> Printed(bb.faults),
     returned |-> ReturnValue(bb)]

NewBuild(dir, lang, gen, files, fault) ==
    [pc |-> "parse", lang |-> lang, dir |-> dir, gen |-> gen,
     files |-> files, nfiles |-> Len(files), failed |-> {},
     functions |-> <<>>, seen_ids |-> {}, duplicate_count |-> 0,
     lists |-> NoLists, efail |-> {}, i |-> 0, total_added |-> 0, faults |-> fault,
     submitted |-> <<>>]

IdleSr == [status |-> "idle"]

IdleFx == [op |-> "none"]

\* lines 123-125 leaving the loop over the files instead of continuing it
OnExtractError_break(bb, file) ==
    [bb EXCEPT !.files = <<>>, !.failed = @ \cup {file.ord},
               !.faults = @ \cup {"extract"}]

\* lines 123-125: the except clause of the loop over the files
OnExtractError(bb, file) ==
    [bb EXCEPT !.files = Tail(@), !.failed = @ \cup {file.ord},
               !.faults = @ \cup {"extract"}]

-----------------------------------------------------------------------------
(* build_index, step by step *)

\* lines 65-92: clear the collection, create it, find the candidate files,
\* raise RuntimeError when there is none
BuildStart ==
    /\ b.pc = "idle"
    /\ nbuilds < MaxBuilds
    /\ \E dir \in Dirs, lang \in BuildLangs, fails \in BOOLEAN :
        LET coll_name == CollName(lang)
            cleared == clear_chroma_collection(colls, coll_name, fails)
            created == GetOrCreate(cleared, coll_name)
            files == Candidates(dir, lang)
            bb == NewBuild(dir, lang, nbuilds + 1, files,
                           IF fails THEN {"clear"} ELSE {})
        IN  /\ fails => /\ Exists(colls, coll_name)
                        /\ colls[coll_name] # {}
                        /\ nfaults < MaxFaults
            /\ nfaults' = nfaults + (IF fails THEN 1 ELSE 0)
            /\ colls' = created
            /\ nbuilds' = nbuilds + 1
            /\ IF files = <<>>
               THEN /\ b' = IdleB
                    /\ last' = Report(bb, created, "no_files")
                    /\ started' = started
               ELSE /\ b' = bb
                    /\ UNCHANGED last
                    /\ started' = started \cup {lang}
    /\ sr' = IdleSr
    /\ UNCHANGED <<clock, calls, fx>>

\* lines 99-125, one file: xfail is detect_and_parse raising (or the Python
\* extractor returning [] after its own except)
BuildParseFile ==
    /\ b.pc = "parse"
    /\ b.files # <<>>
    /\ \E xfail \in BOOLEAN :
        LET file == Head(b.files)
            funcs == ParseFile(file, b.lang)
        IN  IF xfail
            THEN /\ nfaults < MaxFaults
                 /\ nfaults' = nfaults + 1
                 /\ b' = OnExtractError(b, file)
                 /\ clock' = clock
            ELSE \E ts \in [DOMAIN funcs -> clock..MaxClock] :
                    /\ \A i, j \in DOMAIN funcs : i < j => ts[i] <= ts[j]
                    /\ LET st == AssignIds(funcs, ts, b.lang,
                                     [functions |-> b.functions, seen_ids |-> b.seen_ids,
                                      duplicate_count |-> b.duplicate_count])
                       IN  b' = [b EXCEPT !.files = Tail(@),
                                          !.functions = st.functions,
                                          !.seen_ids = st.seen_ids,
                                          !.duplicate_count = st.duplicate_count]
                    /\ clock' = IF Len(funcs) = 0 THEN clock ELSE ts[Len(funcs)]
                    /\ nfaults' = nfaults
    /\ sr' = IdleSr
    /\ UNCHANGED <<colls, nbuilds, last, started, calls, fx>>

\* lines 127-175: return when nothing was found, else build the four lists;
\* efail holds the records whose embedding raised
BuildPrepare ==
    /\ b.pc = "parse"
    /\ b.files = <<>>
    /\ IF b.functions = <<>>
       THEN /\ b' = IdleB
            /\ last' = Report(b, colls, "no_functions")
            /\ nfaults' = nfaults
       ELSE /\ \E efail \in SUBSET DOMAIN b.functions :
                /\ nfaults + Cardinality(efail) <= MaxFaults
                /\ nfaults' = nfaults + Cardinality(efail)
                /\ b' = [b EXCEPT !.pc = "add",
                               !.lists = EmbedPhase(b.functions, efail, 1, NoLists),
                               !.efail = efail,
                               !.faults = @ \cup (IF efail # {} THEN {"embed"} ELSE {})]
            /\ UNCHANGED last
    /\ sr' = IdleSr
    /\ UNCHANGED <<colls, clock, nbuilds, started, calls, fx>>

\* lines 181-211, one batch: bfail is the batch add raising, ifail the
\* positions of the batch whose single add raises afterwards
BuildAddBatch ==
    /\ b.pc = "add"
    /\ LET coll_name == CollName(b.lang)
           end_idx == Min(b.i + batch_size, Len(b.functions))
           batch == Batch(b, b.i + 1, end_idx)
       IN  \E bfail \in BOOLEAN, ifail \in SUBSET DOMAIN batch :
            /\ HasDuplicateIds(batch) => bfail
            /\ ~bfail => ifail = {}
            /\ LET cost == (IF bfail /\ ~HasDuplicateIds(batch) THEN 1 ELSE 0)
                           + Cardinality(ifail)
               IN  /\ nfaults + cost <= MaxFaults
                   /\ nfaults' = nfaults + cost
            /\ LET one == AddOneByOne(colls[coll_name], batch, 1, ifail)
                   entries == IF bfail THEN one.entries
                              ELSE StoreAdd(colls[coll_name], batch)
                   added == IF bfail THEN one.added ELSE Len(batch)
               IN  /\ colls' = [colls EXCEPT ![coll_name] = entries]
                   /\ b' = [b EXCEPT !.i = end_idx,
                                     !.total_added = @ + added,
                                     !.submitted = @ \o Submissions(b.i + 1, end_idx,
                                                                    bfail, one.tried),
                                     !.faults = @ \cup (IF bfail THEN {"batch"} ELSE {})
                                                  \cup (IF ifail # {} THEN {"item"} ELSE {}),
                                     !.pc = IF end_idx >= Len(b.functions)
                                            THEN "verify" ELSE "add"]
    /\ sr' = IdleSr
    /\ UNCHANGED <<clock, nbuilds, last, started, calls, fx>>

\* lines 213-225: report and return
BuildFinish ==
    /\ b.pc = "verify"
    /\ b' = IdleB
    /\ last' = Report(b, colls, "ok")
    /\ sr' = IdleSr
    /\ UNCHANGED <<colls, clock, nbuilds, started, nfaults, calls, fx>>

-----------------------------------------------------------------------------
(* search.query *)

LANG_ALIASES ==
    ("py" :> "py") @@ ("python" :> "py") @@ ("js" :> "js") @@
    ("javascript" :> "js") @@ ("ts" :> "js") @@ ("java" :> "java") @@
    ("rs" :> "rust") @@ ("rust" :> "rust") @@ ("go" :> "go") @@
    ("cpp" :> "cpp") @@ ("c++" :> "cpp")

\* the language arguments and query texts given to query
LangInputs == {"PY", "ts", "ruby"}

Queries == {<<"h", "first">>}

\* lang.lower()
Lower(lang) ==
    CASE lang = "PY"     -> "py"
      [] lang = "Python" -> "python"
      [] OTHER           -> lang

\* line 35 without lower()
NormalizeKey_case(lang) == lang

\* line 35: key = lang.lower()
NormalizeKey(lang) == Lower(lang)

\* what collection.query returns for the entries r, nearest first
StoreReply(r, emb) ==
    [ids |-> [i \in DOMAIN r |-> r[i].id],
     documents |-> [i \in DOMAIN r |-> r[i].doc],
     metadatas |-> [i \in DOMAIN r |-> r[i].meta],
     distances |-> [i \in DOMAIN r |-> Distance(r[i].emb, emb)]]

\* lines 56-63 pairing each id with the document of the nearest entry
Hits_first(results) ==
    [idx \in DOMAIN results.ids |->
        [id |-> results.ids[idx],
         document |-> results.documents[1],
         metadata |-> results.metadatas[idx],
         distance |-> results.distances[idx]]]

\* lines 56-63
Hits(results) ==
    [idx \in DOMAIN results.ids |->
        [id |-> results.ids[idx],
         document |-> results.documents[idx],
         metadata |-> results.metadatas[idx],
         distance |-> results.distances[idx]]]

\* query(q, lang, top_k) against store: the outcomes it can have.  steps
\* lists what the call did, in order.
QueryOutcomes(store, q, lang, top_k) ==
    LET key == NormalizeKey(lang)
        call == [q |-> q, lang |-> lang, top_k |-> top_k]
    IN  IF key \notin DOMAIN LANG_ALIASES
        THEN {[status |-> "unsupported", call |-> call, steps |-> <<"normalize">>,
               coll_name |-> <<>>, hits |-> <<>>]}
        ELSE LET coll_name == CollName(LANG_ALIASES[key])
             IN  IF ~Exists(store, coll_name)
                 THEN {[status |-> "not_found", call |-> call,
                        steps |-> <<"normalize", "get_collection">>,
                        coll_name |-> coll_name, hits |-> <<>>]}
                 ELSE LET emb == embed_text(q)
                      IN  {[status |-> "ok", call |-> call,
                            steps |-> <<"normalize", "get_collection", "embed", "query">>,
                            coll_name |-> coll_name,
                            reply |-> StoreReply(r, emb),
                            hits |-> Hits(StoreReply(r, emb))] :
                              r \in QueryResults(store[coll_name], emb, top_k)}

query ==
    /\ \E q \in Queries, lang \in LangInputs, top_k \in 1..MaxK :
           sr' \in QueryOutcomes(colls, q, lang, top_k)
    /\ UNCHANGED <<colls, b, clock, nbuilds, last, started, nfaults, calls, fx>>

-----------------------------------------------------------------------------
(* The specifications.  Spec: builds, one at a time, with failures of the  *)
(* store, the embedder and the extractors.  SpecSearch: builds that meet   *)
(* no failure, and queries at any moment, also between the steps of a      *)
(* build.                                                                  *)

Init ==
    /\ colls = [n \in {} |-> {}]
    /\ b = IdleB
    /\ clock = 1
    /\ nbuilds = 0
    /\ last = NoReport
    /\ started = {}
    /\ sr = IdleSr
    /\ nfaults = 0
    /\ calls = {}
    /\ fx = IdleFx

Next ==
    \/ BuildStart
    \/ BuildParseFile
    \/ BuildPrepare
    \/ BuildAddBatch
    \/ BuildFinish

Spec == Init /\ [][Next]_vars

InitSearch ==
    /\ colls = [n \in {} |-> {}]
    /\ b = IdleB
    /\ clock = 1
    /\ nbuilds = 0
    /\ last = NoReport
    /\ started = {}
    /\ sr = IdleSr
    /\ nfaults = MaxFaults
    /\ calls = {}
    /\ fx = IdleFx

NextSearch ==
    \/ BuildStart
    \/ BuildParseFile
    \/ BuildPrepare
    \/ BuildAddBatch
    \/ BuildFinish
    \/ query

SpecSearch == InitSearch /\ [][NextSearch]_vars

-----------------------------------------------------------------------------
(* The identity function on its own: calls at different times *)

IdLangs == {"py", "js"}
IdNames == {"f", "my func"}
IdPaths == {<<"/", "repo", "a.py">>, <<"/", "repo", "pkg", "a.py">>}
IdLines == {1, 2}
IdCols == {1, 5}

CallUuid ==
    /\ Cardinality(calls) < MaxCalls
    /\ \E lang \in IdLangs, name \in IdNames, path \in IdPaths,
          line \in IdLines, col \in IdCols :
         calls' = calls \cup
             {[args |-> <<lang, name, path, line, col>>,
               id |-> make_unique_id_uuid(lang, name, path, line, col),
               at |-> clock,
               nth |-> Cardinality(calls) + 1]}
    /\ UNCHANGED <<colls, b, clock, nbuilds, last, started, sr, nfaults, fx>>

Tick ==
    /\ clock < MaxClock
    /\ clock' = clock + 1
    /\ UNCHANGED <<colls, b, nbuilds, last, started, sr, nfaults, calls, fx>>

NextIds == CallUuid \/ Tick

SpecIds == Init /\ [][NextIds]_vars

-----------------------------------------------------------------------------
(* The language extractors (parser/*.py).  A file is the sequence of the   *)
(* function nodes its walk meets; a parameter list is the sequence of its  *)
(* named children; the nodes before a function are its preceding siblings, *)
(* top to bottom.  A text that is None is <<>> where texts are sequences.  *)

\* the six extractors imported by router.py
ParserLangs == {"py", "java", "js", "cpp", "go", "rs"}

\* a parameter node: its type in the language's tree, the names it binds
\* and its text
Param(type, names, text) == [type |-> type, names |-> names, text |-> text]

\* the named children a parameter list of the language can have
ParamPool(lang) ==
    CASE lang = "py" ->
            {Param("args", <<"a">>, "a"), Param("vararg", <<"rest">>, "*rest"),
             Param("kwonlyargs", <<"k">>, "k")}
      [] lang = "go" ->
            {Param("parameter_declaration", <<"a">>, "a int"),
             Param("parameter_declaration", <<"x", "y">>, "x, y int"),
             Param("parameter_declaration", <<>>, "int")}
      [] lang = "cpp" ->
            {Param("parameter_declaration", <<"a">>, "int a"),
             Param("parameter_declaration", <<>>, "int"),
             Param("optional_parameter_declaration", <<"d">>, "int d = 0")}
      [] lang = "java" ->
            {Param("formal_parameter", <<"a">>, "int a"),
             Param("formal_parameter", <<"b">>, "int b"),
             Param("spread_parameter", <<"rest">>, "int... rest")}
      [] lang = "rs" ->
            {Param("parameter", <<"a">>, "a: i32"),
             Param("parameter", <<"b">>, "b: i32"),
             Param("self_parameter", <<"self">>, "&self")}
      [] OTHER ->
            {Param("identifier", <<"a">>, "a"),
             Param("assignment_pattern", <<"d">>, "d = 0"),
             Param("identifier", <<"b">>, "b")}

RECURSIVE _extract_args(_, _)
\* python_parser 29-31, go_parser 29-45, cpp_parser 29-39, java_parser
\* 50-60, rust_parser 29-37, js_parser 54-70
_extract_args(lang, params) ==
    IF Len(params) = 0 THEN <<>>
    ELSE LET child == Head(params)
             named == child.names # <<>>
             mine ==
                CASE lang = "py" ->
                        IF child.type = "args" THEN <<child.names[1]>> ELSE <<>>
                  [] lang = "go" ->
                        IF child.type = "parameter_declaration"
                        THEN (IF named THEN <<child.names[1]>> ELSE <<"_">>)
                        ELSE <<>>
                  [] lang = "cpp" ->
                        IF child.type = "parameter_declaration"
                        THEN (IF named THEN <<child.names[1]>> ELSE <<child.text>>)
                        ELSE <<>>
                  [] lang = "java" ->
                        IF child.type = "formal_parameter" /\ named
                        THEN <<child.names[1]>> ELSE <<>>
                  [] lang = "rs" ->
                        IF child.type = "parameter"
                        THEN (IF named THEN <<child.names[1]>> ELSE <<"_">>)
                        ELSE <<>>
                  [] OTHER ->
                        IF child.type \in {"identifier", "rest_parameter",
                                           "object_pattern", "array_pattern"}
                        THEN <<child.text>>
                        ELSE IF child.type = "assignment_pattern" /\ named
                        THEN <<child.names[1]>> ELSE <<>>
         IN  mine \o _extract_args(lang, Tail(params))

\* a function node: type, name, parameter list, return annotation (<<>>:
\* none) and whether processing it raises
FnNode(type, name, params, returns, bad) ==
    [type |-> type, name |-> name, params |-> params, returns |-> returns, bad |-> bad]

\* the first parameter of ParamPool, which every extractor reports as "a"
PlainParam(lang) == CHOOSE p \in ParamPool(lang) : p.names = <<"a">>

\* the function nodes a file of the language can hold
NodePool(lang) ==
    {FnNode("FunctionDef", "add", <<PlainParam(lang)>>, <<"Name", "int">>, FALSE),
     FnNode("FunctionDef", "run", <<>>, <<>>, FALSE),
     FnNode("FunctionDef", "odd", <<>>, <<"Name", "float">>, TRUE)}
    \cup (IF lang = "py"
          THEN {FnNode("AsyncFunctionDef", "fetch", <<>>, <<"Name", "int">>, FALSE)}
          ELSE {})

\* python_parser line 24: isinstance(node, ast.FunctionDef); the nodes of
\* the other languages' files are those their walk matches
IsFunctionNode(lang, node) == lang = "py" => node.type = "FunctionDef"

\* ast.unparse of an annotation that is a name
Unparse(ann) == ann[2]

\* f"-> {t}"
Arrow(t) ==
    CASE t = "int" -> "-> int"
      [] t = "float" -> "-> float"
      [] OTHER -> "-> ?"

\* python_parser line 36 putting the arrow in front of the annotation
ReturnType_arrow(lang, node) ==
    IF node.returns = <<>> THEN NoneVal ELSE Arrow(Unparse(node.returns))

\* python_parser 34-36, java_parser 114, cpp_parser 102; None in
\* go_parser 103, rust_parser 105 and js_parser 130
ReturnType(lang, node) ==
    CASE lang = "py" -> IF node.returns = <<>> THEN NoneVal ELSE Unparse(node.returns)
      [] lang = "java" -> IF node.returns = <<>> THEN "" ELSE node.returns[2]
      [] lang = "cpp" -> IF node.returns = <<>> THEN NoneVal ELSE node.returns[2]
      [] OTHER -> NoneVal

\* the FunctionSchema built for one node
Record(lang, node) ==
    [name |-> node.name,
     args |-> _extract_args(lang, node.params),
     return_type |-> ReturnType(lang, node)]

\* cpp_parser 123-126, go_parser 124-127, rust_parser 126-129: the node is
\* processed inside try/except
PerNodeTry(lang) == lang \in {"cpp", "go", "rs"}

RECURSIVE walk(_, _, _, _)
\* parse_file over the nodes of a file, functions and logged being what was
\* collected and printed so far.  A node that raises is skipped where the
\* walk has its own try; in python_parser the try around the whole body
\* (lines 13, 90-92) prints and returns []; in java_parser and js_parser
\* nothing catches it.
walk(lang, nodes, functions, logged) ==
    IF Len(nodes) = 0
    THEN [raised |-> FALSE, functions |-> functions, logged |-> logged]
    ELSE LET node == Head(nodes)
         IN  IF ~IsFunctionNode(lang, node)
             THEN walk(lang, Tail(nodes), functions, logged)
             ELSE IF ~node.bad
             THEN walk(lang, Tail(nodes), Append(functions, Record(lang, node)), logged)
             ELSE IF PerNodeTry(lang)
             THEN walk(lang, Tail(nodes), functions, logged + 1)
             ELSE IF lang = "py"
             THEN [raised |-> FALSE, functions |-> <<>>, logged |-> logged + 1]
             ELSE [raised |-> TRUE, functions |-> <<>>, logged |-> logged]

parse_file(lang, nodes) == walk(lang, nodes, <<>>, 0)

\* the files given to parse_file
NodeFiles(lang) ==
    UNION {[1..n -> NodePool(lang)] : n \in 0..MaxNodes}

\* a call of an extractor's parse_file
CallParseFile ==
    /\ fx = IdleFx
    /\ \E lang \in ParserLangs : \E nodes \in NodeFiles(lang) :
          fx' = [op |-> "parse_file", lang |-> lang, nodes |-> nodes,
                 out |-> parse_file(lang, nodes)]
    /\ UNCHANGED <<colls, b, clock, nbuilds, last, started, sr, nfaults, calls>>

\* the parameter lists given to _extract_args
ParamLists(lang) ==
    UNION {[1..n -> ParamPool(lang)] : n \in 0..MaxParams}

\* a call of an extractor's _extract_args
CallExtractArgs ==
    /\ fx = IdleFx
    /\ \E lang \in ParserLangs : \E params \in ParamLists(lang) :
          fx' = [op |-> "_extract_args", lang |-> lang, params |-> params,
                 out |-> _extract_args(lang, params)]
    /\ UNCHANGED <<colls, b, clock, nbuilds, last, started, sr, nfaults, calls>>

\* the extractors that look for comments before the function node
\* (python_parser reads the docstring from the body instead)
DocLangs == ParserLangs \ {"py"}

\* a preceding sibling: a comment with its opening marker and the text left
\* when the markers are stripped, or another node
Comment(marker, body) == [comment |-> TRUE, is_named |-> TRUE, marker |-> marker, body |-> body]

Statement == [comment |-> FALSE, is_named |-> TRUE, marker |-> "", body |-> "x = 1"]

SiblingPool == {Comment("/**", "A"), Comment("///", "B"), Comment("//", "note"), Statement}

\* the prefixes p for which a text opening with marker has startswith(p)
Prefixes(marker) ==
    CASE marker = "/**" -> {"/*", "/**"}
      [] marker = "///" -> {"//", "///"}
      [] marker = "//!" -> {"//", "//!"}
      [] marker = "//"  -> {"//"}
      [] marker = "/*"  -> {"/*"}
      [] OTHER -> {}

\* the openings an extractor takes for a doc comment: cpp_parser 53,
\* go_parser 61, rust_parser 55, js_parser 40; java_parser 42 takes every
\* line or block comment
DocPrefixes(lang) ==
    CASE lang = "cpp" -> {"/**", "///"}
      [] lang = "go" -> {"//", "/*"}
      [] lang = "rs" -> {"///", "//!", "/**"}
      [] lang = "js" -> {"/**"}
      [] OTHER -> {"//", "/*"}

IsDocComment(lang, sibling) ==
    sibling.comment /\ Prefixes(sibling.marker) \cap DocPrefixes(lang) # {}

\* what the loop body does with one sibling: "take" appends its text,
\* "skip" goes on to the next sibling, "stop" is break, "return" returns
\* this comment alone.  cpp_parser 51-60, go_parser 59-65, rust_parser
\* 52-63, js_parser 38-49, java_parser 42-46.
StepOf(lang, sibling) ==
    CASE lang \in {"cpp", "go"} ->
            IF sibling.comment
            THEN (IF IsDocComment(lang, sibling) THEN "take" ELSE "skip")
            ELSE IF sibling.is_named THEN "stop" ELSE "skip"
      [] lang = "rs" ->
            IF sibling.comment
            THEN (IF IsDocComment(lang, sibling) THEN "take" ELSE "skip")
            ELSE "stop"
      [] lang = "js" ->
            IF sibling.comment
            THEN (IF IsDocComment(lang, sibling) THEN "take" ELSE "stop")
            ELSE IF sibling.is_named THEN "stop" ELSE "skip"
      [] OTHER ->
            IF sibling.comment THEN "return"
            ELSE IF sibling.is_named THEN "stop" ELSE "skip"

RECURSIVE ScanUp(_, _, _, _)
\* the loop over the preceding siblings, nearest first: sibs[k] is the next
\* one, docs the texts appended so far
ScanUp(lang, sibs, k, docs) ==
    IF k = 0 THEN docs
    ELSE LET step == StepOf(lang, sibs[k])
         IN  CASE step = "take" -> ScanUp(lang, sibs, k - 1, Append(docs, sibs[k].body))
               [] step = "skip" -> ScanUp(lang, sibs, k - 1, docs)
               [] step = "return" -> <<sibs[k].body>>
               [] OTHER -> docs

Reverse(s) == [i \in DOMAIN s |-> s[Len(s) + 1 - i]]

\* _extract_doc / _extract_jsdoc: the lines of the joined text, top to
\* bottom; <<>> is None
_extract_doc(lang, sibs) == Reverse(ScanUp(lang, sibs, Len(sibs), <<>>))

\* the sibling sequences given to _extract_doc
SiblingLists == UNION {[1..n -> SiblingPool] : n \in 0..MaxSiblings}

\* a call of an extractor's _extract_doc
CallExtractDoc ==
    /\ fx = IdleFx
    /\ \E lang \in DocLangs : \E sibs \in SiblingLists :
          fx' = [op |-> "_extract_doc", lang |-> lang, sibs |-> sibs,
                 out |-> _extract_doc(lang, sibs)]
    /\ UNCHANGED <<colls, b, clock, nbuilds, last, started, sr, nfaults, calls>>

-----------------------------------------------------------------------------
(* The Router (router.py).  A path is its stem and its suffix; the content *)
(* of a file is a sequence of pieces of text, of which the first HeadLen   *)
(* are inside the slice that detect_lang reads.                            *)

\* lines 11-24: extension or tag -> the extractor called
PARSERS ==
    ("py" :> "parse_py") @@ ("python" :> "parse_py") @@ ("java" :> "parse_java") @@
    ("js" :> "parse_js") @@ ("javascript" :> "parse_js") @@ ("cpp" :> "parse_cpp") @@
    ("cc" :> "parse_cpp") @@ ("hpp" :> "parse_cpp") @@ ("h" :> "parse_cpp") @@
    ("go" :> "parse_go") @@ ("rs" :> "parse_rs") @@ ("rust" :> "parse_rs")

\* the pieces of text a file can contain
Pieces ==
    {"def ", "import ", "public class", "package ", "function", "const",
     "func ", "fn ", "#include", "std::", "hello"}

\* the suffixes of the paths given to the Router: path.suffix is empty or a
\* dot and an extension
Suffixes == {<<>>, <<".", "py">>, <<".", "h">>, <<".", "rust">>, <<".", "txt">>, <<".", "PY">>}

Contents == UNION {[1..n -> Pieces] : n \in 0..MaxPieces}

\* path.suffix.lstrip(".")
Ext(path) == IF path.suffix = <<>> THEN "" ELSE path.suffix[2]

\* read_text(...)[:2048], as the pieces inside the slice
Head2048(content) == {content[i] : i \in 1..Min(HeadLen, Len(content))}

\* lines 34-45 with the rule for js tried before the rule for py
Sniff_js_first(head) ==
    IF "function" \in head \/ "const" \in head THEN "js"
    ELSE IF "def " \in head \/ "import " \in head THEN "py"
    ELSE IF "public class" \in head \/ "package " \in head THEN "java"
    ELSE IF "func " \in head THEN "go"
    ELSE IF "fn " \in head THEN "rs"
    ELSE IF "#include" \in head \/ "std::" \in head THEN "cpp"
    ELSE "unknown"

\* lines 34-47
Sniff(head) ==
    IF "def " \in head \/ "import " \in head THEN "py"
    ELSE IF "public class" \in head \/ "package " \in head THEN "java"
    ELSE IF "function" \in head \/ "const" \in head THEN "js"
    ELSE IF "func " \in head THEN "go"
    ELSE IF "fn " \in head THEN "rs"
    ELSE IF "#include" \in head \/ "std::" \in head THEN "cpp"
    ELSE "unknown"

\* lines 27-47
detect_lang(path, content) ==
    LET ext == Ext(path)
    IN  IF ext \in DOMAIN PARSERS THEN ext ELSE Sniff(Head2048(content))

\* lines 49-53: the language found, whether RuntimeError was raised, its
\* message, and the extractor called
detect_and_parse(path, content) ==
    LET lang == detect_lang(path, content)
    IN  IF lang = "unknown"
        THEN [lang |-> lang, raised |-> TRUE,
              message |-> <<"Cannot detect language for ", path>>, invoked |-> NoneVal]
        ELSE [lang |-> lang, raised |-> FALSE, message |-> <<>>,
              invoked |-> PARSERS[lang]]

\* a call of detect_and_parse
CallDetectAndParse ==
    /\ fx = IdleFx
    /\ \E suffix \in Suffixes : \E content \in Contents :
          LET path == [stem |-> "f", suffix |-> suffix]
          IN  fx' = [op |-> "detect_and_parse", path |-> path, content |-> content,
                     out |-> detect_and_parse(path, content)]
    /\ UNCHANGED <<colls, b, clock, nbuilds, last, started, sr, nfaults, calls>>

-----------------------------------------------------------------------------
(* The candidate files of a build (indexer lines 74-90), as a function of  *)
(* the root and of the files the glob finds below it.                      *)

\* the roots a build is run on, as path parts: repo_root is resolved by the
\* index command (main.py line 114), so the parts start at "/"
Roots == {<<"/", "repo">>, <<"/", "home", "build", "proj">>, <<"/", "venv">>}

\* paths below the root, all matching the glob of the build's language
RelPaths ==
    {<<"a.py">>, <<"src", "a.py">>, <<"venv", "a.py">>,
     <<"src", "dist", "a.py">>, <<"src", "builder", "a.py">>}

\* lines 76-87: the paths glob returns start with the parts of repo_root;
\* the files kept are those with no excluded part
filtered_files(root, rels) == {rel \in rels : ~HasExcludedPart(root \o rel)}

\* lines 74-90 for one root and one set of matching files
CallFilterFiles ==
    /\ fx = IdleFx
    /\ \E root \in Roots : \E rels \in SUBSET RelPaths :
          fx' = [op |-> "filter_files", root |-> root, rels |-> rels,
                 out |-> filtered_files(root, rels),
                 raised |-> filtered_files(root, rels) = {}]
    /\ UNCHANGED <<colls, b, clock, nbuilds, last, started, sr, nfaults, calls>>

-----------------------------------------------------------------------------
(* The index command (main.py lines 105-137) as far as the language tag    *)
(* goes: alias -> tag -> glob -> extractor of each file found.             *)

\* main.py lines 13-25
MAIN_LANG_ALIASES ==
    ("py" :> "py") @@ ("python" :> "py") @@ ("js" :> "js") @@
    ("javascript" :> "js") @@ ("ts" :> "js") @@ ("java" :> "java") @@
    ("rs" :> "rust") @@ ("rust" :> "rust") @@ ("go" :> "go") @@
    ("cpp" :> "cpp") @@ ("c++" :> "cpp")

\* the --lang values given to the index command
IndexLangs == DOMAIN MAIN_LANG_ALIASES \cup {"PY", "ruby"}

\* the files a root can hold, one for each of these extensions
TreeFiles ==
    {[stem |-> "f", suffix |-> <<".", x>>] : x \in {"py", "rs", "rust", "cc", "cpp", "js"}}

\* indexer lines 75-76: repo_root.glob(f"**/*.{lang}")
Glob(tree, lang) == {p \in tree : p.suffix = <<".", lang>>}

\* main.py lines 129-136 and indexer lines 75-76, 101: the tag the alias is
\* normalized to, the files its glob selects and the extractor
\* detect_and_parse calls for each
index(lang, tree) ==
    LET key == Lower(lang)
    IN  IF key \notin DOMAIN MAIN_LANG_ALIASES
        THEN [status |-> "unsupported", normalized |-> NoneVal,
              files |-> {}, invoked |-> <<>>]
        ELSE LET normalized == MAIN_LANG_ALIASES[key]
                 files == Glob(tree, normalized)
             IN  [status |-> IF files = {} THEN "no_files" ELSE "built",
                  normalized |-> normalized,
                  files |-> files,
                  invoked |-> [p \in files |-> detect_and_parse(p, <<>>).invoked]]

\* a call of the index command
CallIndex ==
    /\ fx = IdleFx
    /\ \E lang \in IndexLangs : \E tree \in SUBSET TreeFiles :
          fx' = [op |-> "index", lang |-> lang, tree |-> tree,
                 out |-> index(lang, tree)]
    /\ UNCHANGED <<colls, b, clock, nbuilds, last, started, sr, nfaults, calls>>

NextFile ==
    \/ CallParseFile \/ CallExtractArgs \/ CallExtractDoc \/ CallDetectAndParse
    \/ CallFilterFiles \/ CallIndex

SpecFile == Init /\ [][NextFile]_vars

-----------------------------------------------------------------------------
(* What the extractors produced for the files a build has been through *)

RECURSIVE ConcatParsed(_, _, _)
ConcatParsed(files, failed, lang) ==
    IF Len(files) = 0 THEN <<>>
    ELSE (IF files[1].ord \in failed THEN <<>> ELSE ParseFile(files[1], lang))
         \o ConcatParsed(Tail(files), failed, lang)

\* the records of the files already processed whose extraction did not fail
ExtractedSoFar(bb) ==
    LET cands == Candidates(bb.dir, bb.lang)
        done == SubSeqOf(cands, 1, Len(cands) - Len(bb.files))
    IN  ConcatParsed(done, bb.failed, bb.lang)

SameButId(r1, r2) == [r1 EXCEPT !.id = <<>>] = [r2 EXCEPT !.id = <<>>]

Finished(r) == r.status \in {"ok", "no_functions"}

\* the nodes of a file that parse_file processes without an error
WellFormed(lang, nodes) ==
    SelectSeq(nodes, LAMBDA n : IsFunctionNode(lang, n) /\ ~n.bad)

RECURSIVE BindingNames(_)
\* the names bound by the parameters of a parameter list, in source order,
\* "_" standing for a parameter that binds none
BindingNames(params) ==
    IF Len(params) = 0 THEN <<>>
    ELSE (IF Head(params).names = <<>> THEN <<"_">> ELSE Head(params).names)
         \o BindingNames(Tail(params))

\* the texts of the doc comments that end the sibling sequence with nothing
\* else between them and the function, top to bottom
AdjacentDocRun(lang, sibs) ==
    LET n == Len(sibs)
        first == CHOOSE i \in 1..(n + 1) :
                    /\ \A j \in i..n : IsDocComment(lang, sibs[j])
                    /\ (i = 1 \/ ~IsDocComment(lang, sibs[i - 1]))
    IN  [k \in 1..(n + 1 - first) |-> sibs[first + k - 1].body]

\* lines 34-45 as a table: the languages in the order their rules are
\* tried, and the pieces of text each rule looks for
SniffOrder == <<"py", "java", "js", "go", "rs", "cpp">>

Fingerprints(lang) ==
    CASE lang = "py" -> {"def ", "import "}
      [] lang = "java" -> {"public class", "package "}
      [] lang = "js" -> {"function", "const"}
      [] lang = "go" -> {"func "}
      [] lang = "rs" -> {"fn "}
      [] OTHER -> {"#include", "std::"}

-----------------------------------------------------------------------------
(* Properties *)

\* C1: two builds for the same language over the same directory, neither
\* meeting any failure, persist the same set of ids, index the same number
\* of functions and both count zero duplicate ids.
C1_IdempotentRebuild ==
    [][(/\ last' # last
        /\ Finished(last) /\ Finished(last')
        /\ last'.dir = last.dir /\ last'.lang = last.lang
        /\ last.faults = {} /\ last'.faults = {})
       => /\ last'.persisted = last.persisted
          /\ Len(last'.functions) = Len(last.functions)
          /\ last.duplicate_count = 0
          /\ last'.duplicate_count = 0]_vars

\* C2: within one build the ids given to the records are pairwise distinct,
\* and the collision counter is the number of records that got a suffix.
C2_SubmittedIdsDistinct ==
    b.pc # "idle" =>
       /\ \A i, j \in DOMAIN b.functions :
              i # j => b.functions[i].id # b.functions[j].id
       /\ b.duplicate_count =
              Cardinality({i \in DOMAIN b.functions : IsSuffixed(b.functions[i].id)})

\* C3: when a build has returned normally, the collection of its language
\* holds only entries written by that build.
C3_FullReplace ==
    (b.pc = "idle" /\ Finished(last)) =>
        \A e \in colls[CollName(last.lang)] : e.gen = last.gen

\* C4: a build that raises the no-files-found error leaves the store as it
\* was: no collection created, cleared or modified.
C4_NoFilesTouchesNothing ==
    [][(nbuilds' # nbuilds /\ last'.status = "no_files") => colls' = colls]_vars

C6_NotFoundUntilBuilt ==
    sr.status \in {"not_found", "ok"} =>
        LET tag == LANG_ALIASES[Lower(sr.call.lang)]
        IN  /\ tag \notin started => sr.status = "not_found"
            /\ (tag \in started /\ colls[CollName(tag)] = {}) =>
                   (sr.status = "ok" /\ sr.hits = <<>>)

\* C7: query looks the lower-cased language up in the alias table and opens
\* the collection of the normalized tag; a language that is no key fails as
\* unsupported before a collection is opened or the text embedded.
C7_NormalizeThenFailFast ==
    sr.status # "idle" =>
        LET key == Lower(sr.call.lang)
        IN  /\ sr.status = "unsupported" <=> key \notin DOMAIN LANG_ALIASES
            /\ sr.status = "unsupported" => sr.steps = <<"normalize">>
            /\ sr.status # "unsupported" =>
                   /\ sr.coll_name = CollName(LANG_ALIASES[key])
                   /\ sr.steps[1] = "normalize"
                   /\ sr.steps[2] = "get_collection"
                   /\ \A i \in DOMAIN sr.steps : sr.steps[i] = "embed" => i > 2

C7_Witness == sr.status = "unsupported" /\ b.pc = "idle" /\ Finished(last)

\* C8: the hits are at most top_k, nearest first, as many and in the order
\* the store reported, each with the id, document, metadata and distance of
\* one stored entry.
C8_HitsAsReported ==
    sr.status = "ok" =>
        LET entries == colls[sr.coll_name]
            emb == embed_text(sr.call.q)
            hits == sr.hits
        IN  /\ Len(hits) <= sr.call.top_k
            /\ \A i, j \in DOMAIN hits : i < j => hits[i].distance <= hits[j].distance
            /\ Len(hits) = Len(sr.reply.ids)
            /\ \A i \in DOMAIN hits : hits[i].id = sr.reply.ids[i]
            /\ \A i \in DOMAIN hits : \E e \in entries :
                   /\ e.id = hits[i].id
                   /\ e.doc = hits[i].document
                   /\ e.meta = hits[i].metadata
                   /\ Distance(e.emb, emb) = hits[i].distance

C8_Witness ==
    /\ sr.status = "ok"
    /\ Cardinality(colls[sr.coll_name]) = 3
    /\ Len(sr.hits) = 2
    /\ sr.hits[1].distance < sr.hits[2].distance
    /\ sr.hits[1].document # sr.hits[2].document

C10_IdIsExtractorId ==
    b.pc # "idle" =>
        LET want == ExtractedSoFar(b)
        IN  \A k \in DOMAIN b.functions :
               k \in DOMAIN want => b.functions[k].id = want[k].id

\* C11: a build that returns hands its caller a report, and the counts of
\* the build equal what happened: files scanned, functions found, duplicate
\* ids, and as successfully indexed the number of this build's records that
\* are in the collection when it returns.
C11_ReturnsTrueReport ==
    Finished(last) =>
        /\ last.returned # NoneVal
        /\ last.nfiles = Len(Candidates(last.dir, last.lang))
        /\ last.total_added = last.present

\* C12: every failure a build caught and recovered from is reported: none
\* of the kinds of failure it met is left without a message.
C12_NoErrorDropped ==
    last.status # "none" => last.faults \subseteq last.printed

\* C13: for every extractor, a function node whose processing fails is the
\* only record left out: parse_file raises nothing and returns the records
\* of all the well-formed function nodes of the file, in order.
C13_BadNodeSkipsOnlyItself ==
    fx.op = "parse_file" =>
        /\ ~fx.out.raised
        /\ Len(fx.out.functions) = Len(WellFormed(fx.lang, fx.nodes))
        /\ \A k \in DOMAIN fx.out.functions :
               fx.out.functions[k] = Record(fx.lang, WellFormed(fx.lang, fx.nodes)[k])

\* C14: the preceding-comment scan returns the texts of the doc comments of
\* the longest run that ends directly before the function, top to bottom,
\* and nothing from beyond the first sibling that is not a doc comment; None
\* when that run is empty.
C14_DocIsAdjacentRun ==
    fx.op = "_extract_doc" => fx.out = AdjacentDocRun(fx.lang, fx.sibs)

\* C15: for every extractor the arguments are the names bound by the
\* parameters, in source order, one entry for each parameter, "_" for an
\* unnamed one; no kind of parameter is left out and a grouped declaration
\* gives one entry per name.
C15_ArgsAreBindingNames ==
    fx.op = "_extract_args" => fx.out = BindingNames(fx.params)

C17_EmbedsDocumentText ==
    b.pc \in {"add", "verify"} =>
        \A k \in DOMAIN b.functions :
            k \notin b.efail =>
                LET f == b.functions[k]
                    documentText == <<f.name, " ", DocOrEmpty(f.docstring)>>
                IN  /\ b.lists.docs[k] = documentText
                    /\ Payload(f) = b.lists.docs[k]
                    /\ b.lists.embeds[k] = embed_text(documentText)

\* C18: after the embedding phase the four lists have one position for each
\* function, position k of each holding what belongs to function k, the
\* vector being all zeros and of the embedding's length exactly where the
\* embedding failed; the build goes on to the adds.
C18_ZeroVectorKeepsListsAligned ==
    b.pc \in {"add", "verify"} =>
        LET n == Len(b.functions)
        IN  /\ Len(b.lists.ids) = n /\ Len(b.lists.docs) = n
            /\ Len(b.lists.metadatas) = n /\ Len(b.lists.embeds) = n
            /\ \A k \in 1..n :
                  LET f == b.functions[k]
                  IN  /\ b.lists.ids[k] = f.id
                      /\ b.lists.docs[k][1] = f.name
                      /\ b.lists.metadatas[k].name = f.name
                      /\ b.lists.metadatas[k].start_line = f.start_line
                      /\ Len(b.lists.embeds[k]) = EmbDim
                      /\ k \in b.efail => \A d \in 1..EmbDim : b.lists.embeds[k][d] = 0
                      /\ k \notin b.efail => b.lists.embeds[k] = embed_function(f)

C18_Witness ==
    /\ b.pc = "verify"
    /\ Len(b.functions) = 3
    /\ b.efail = {2}
    /\ b.lists.embeds[1] # b.lists.embeds[2]
    /\ b.lists.embeds[3] # b.lists.embeds[2]

\* C19: the batch adds cover the records in order, each batch at most
\* batch_size long and starting where the one before ended; a batch add that
\* raised is followed by one single add for each of its records, in order,
\* whether or not earlier ones raised, and a batch add that did not raise by
\* none; every record is counted at most once and total_added is the number
\* of records counted.
C19_BatchesThenSingles ==
    b.pc \in {"add", "verify"} =>
        LET log == b.submitted
            batches == {e \in DOMAIN log : log[e].kind = "batch"}
            \* the single adds that follow the batch add at e
            after(e) == {t \in DOMAIN log :
                            /\ t > e /\ log[t].kind = "single"
                            /\ \A u \in batches : ~(e < u /\ u < t)}
            counted(k) == {e \in DOMAIN log : log[e].ok /\ log[e].lo <= k /\ k <= log[e].hi}
        IN  /\ log # <<>> => log[1].kind = "batch" /\ log[1].lo = 1
            /\ \A e \in batches :
                  /\ log[e].lo <= log[e].hi
                  /\ log[e].hi - log[e].lo + 1 <= batch_size
                  /\ (log[e].hi < Len(b.functions) /\ b.pc = "verify") =>
                        \E u \in batches : u > e /\ log[u].lo = log[e].hi + 1
                  /\ \A u \in batches :
                        (u > e /\ \A w \in batches : ~(e < w /\ w < u))
                            => log[u].lo = log[e].hi + 1
                  /\ log[e].ok => after(e) = {}
                  /\ ~log[e].ok =>
                        /\ Cardinality(after(e)) = log[e].hi - log[e].lo + 1
                        /\ \A t \in after(e) : log[t].lo = log[e].lo + (t - e) - 1
            /\ b.pc = "verify" => \E e \in batches : log[e].hi = Len(b.functions)
            /\ \A k \in 1..b.i : Cardinality(counted(k)) <= 1
            /\ b.total_added = Cardinality({k \in 1..b.i : counted(k) # {}})

C19_Witness ==
    /\ b.pc = "verify"
    /\ Len(b.functions) = 3
    /\ Len(b.submitted) = 4
    /\ ~b.submitted[1].ok
    /\ b.submitted[2].kind = "single" /\ ~b.submitted[2].ok
    /\ b.submitted[3].kind = "single" /\ b.submitted[3].ok
    /\ b.submitted[4].kind = "batch" /\ b.submitted[4].ok /\ b.submitted[4].lo = 3
    /\ b.total_added = 2

\* C20: a path whose extension is a key of PARSERS is dispatched by that
\* extension whatever the content; otherwise the first rule of the sequence
\* py, java, js, go, rs, cpp that matches the head of the content decides;
\* otherwise the result is unknown and detect_and_parse raises an error
\* naming the path and calls no extractor.  Every other result is a key of
\* PARSERS and its extractor is the one called.
C20_DetectionOrder ==
    fx.op = "detect_and_parse" =>
        LET ext == Ext(fx.path)
            head == Head2048(fx.content)
            hits == {i \in DOMAIN SniffOrder : Fingerprints(SniffOrder[i]) \cap head # {}}
            want == IF ext \in DOMAIN PARSERS THEN ext
                    ELSE IF hits = {} THEN "unknown"
                    ELSE SniffOrder[CHOOSE i \in hits : \A j \in hits : i <= j]
        IN  /\ fx.out.lang = want
            /\ want = "unknown" =>
                   /\ fx.out.raised
                   /\ fx.out.invoked = NoneVal
                   /\ fx.out.message[Len(fx.out.message)] = fx.path
            /\ want # "unknown" =>
                   /\ ~fx.out.raised
                   /\ fx.out.lang \in DOMAIN PARSERS
                   /\ fx.out.invoked = PARSERS[want]

C20_Witness ==
    /\ fx.op = "detect_and_parse"
    /\ Ext(fx.path) = "txt"
    /\ fx.content = <<"std::", "const", "def ">>
    /\ fx.out.lang = "js"
    /\ fx.out.invoked = "parse_js"

\* C21: a file matching the glob is a candidate exactly when none of the
\* directory names on its path below the root is in the denylist; the names
\* of the root and of its ancestors make no difference.
C21_DenylistBelowRootOnly ==
    fx.op = "filter_files" =>
        fx.out = {rel \in fx.rels :
                     \A i \in 1..(Len(rel) - 1) : rel[i] \notin exclude_patterns}

\* C22: a search running between the steps of a build on its language can
\* see the collection empty or holding only part of the build's records;
\* what it returns is always an entry of the collection that an earlier
\* build wrote or that the build in progress has added so far.
C22_SearchSeesOldOrNew ==
    sr.status = "ok" =>
        \A i \in DOMAIN sr.hits :
            \E e \in colls[sr.coll_name] :
                /\ e.id = sr.hits[i].id
                /\ e.doc = sr.hits[i].document
                /\ e.meta = sr.hits[i].metadata
                /\ e.gen \in 1..nbuilds
                /\ IF b.pc # "idle" /\ sr.coll_name = <<"functions_", b.lang>>
                   THEN /\ e.gen = b.gen
                        /\ \E k \in 1..b.i :
                               /\ b.lists.ids[k] = e.id
                               /\ b.lists.docs[k] = e.doc
                               /\ b.lists.metadatas[k] = e.meta
                               /\ b.lists.embeds[k] = e.emb
                   ELSE e.gen < nbuilds \/ b.pc = "idle"

C22_Witness ==
    /\ sr.status = "ok"
    /\ b.pc = "add"
    /\ sr.coll_name = <<"functions_", b.lang>>
    /\ Len(b.functions) = 3
    /\ Cardinality(Range(b.lists.ids)) = 3
    /\ b.i = 2
    /\ Cardinality(colls[sr.coll_name]) = 2
    /\ Len(sr.hits) = 2
    /\ last.status = "ok" /\ last.lang = b.lang
    /\ last.persisted # {}

\* C23: no step removes a collection; the step in which a build for a
\* language clears and creates leaves that language's collection in
\* existence, also when the build then aborts for want of files; and a
\* search fails with collection-not-found only on a collection that does
\* not exist, so never after a build for its language.
C23_CollectionsStay ==
    [][/\ DOMAIN colls \subseteq DOMAIN colls'
       /\ (nbuilds' # nbuilds =>
              LET lang == IF b'.pc # "idle" THEN b'.lang ELSE last'.lang
              IN  <<"functions_", lang>> \in DOMAIN colls')
       /\ (sr'.status = "not_found" => sr'.coll_name \notin DOMAIN colls')
       /\ (sr'.status = "ok" => sr'.coll_name \in DOMAIN colls')]_vars

C23_Witness ==
    /\ nbuilds = 1
    /\ last.status = "no_files"
    /\ sr.status = "ok"
    /\ sr.coll_name = <<"functions_", last.lang>>
    /\ sr.hits = <<>>

\* C24: every step of a build for a language leaves the collections of the
\* other languages as they were and creates no collection but its own,
\* whether the build goes through, aborts or recovers from failures.
C24_OnlyOwnCollection ==
    [][(b' # b \/ nbuilds' # nbuilds \/ colls' # colls) =>
          LET lang == IF b.pc # "idle" THEN b.lang
                      ELSE IF b'.pc # "idle" THEN b'.lang ELSE last'.lang
              own == <<"functions_", lang>>
          IN  /\ \A n \in DOMAIN colls :
                     n # own => (n \in DOMAIN colls' /\ colls'[n] = colls[n])
              /\ DOMAIN colls' \subseteq DOMAIN colls \cup {own}]_vars

C24_Witness ==
    /\ b.pc = "idle"
    /\ last.status = "ok" /\ last.lang = "js" /\ last.gen = 2
    /\ "batch" \in last.faults
    /\ DOMAIN colls = {<<"functions_", "py">>, <<"functions_", "js">>}
    /\ colls[<<"functions_", "js">>] # {}
    /\ Cardinality(colls[<<"functions_", "py">>]) = 2
    /\ \A e \in colls[<<"functions_", "py">>] : e.gen = 1

\* C25: for every alias the index command accepts, the files selected by
\* the glob of the normalized tag are all the files whose extension the
\* Router maps to the extractor of that language, and each of them is
\* dispatched to that extractor.
C25_GlobMatchesRouter ==
    (fx.op = "index" /\ fx.out.status # "unsupported") =>
        LET extractor == PARSERS[fx.out.normalized]
            routed == {p \in fx.tree :
                          /\ Ext(p) \in DOMAIN PARSERS
                          /\ PARSERS[Ext(p)] = extractor}
        IN  /\ fx.out.files = routed
            /\ \A p \in fx.out.files : fx.out.invoked[p] = extractor

====
